---------------------------- MODULE Spec2Model ----------------------------
(***************************************************************************)
(* Card games on a fixed catalog: the Matching engine (Game), the          *)
(* Valuation engine, the Guess engine, the shared card catalog (Cards) and *)
(* the best-score ledger (HighScores), modelled as state machines whose    *)
(* actions are the engines' methods.                                       *)
(***************************************************************************)
EXTENDS Integers, Sequences, FiniteSets, TLC

VARIABLES
    \* Cards
    allCards, isLoaded,
    \* the caller's side of Cards.load: what the last call returned, and
    \* whether a fetch was ever made with the list already cached
    loadReturned, refetched,
    \* Game.state
    cards, flippedCards, matchedPairs, turns, isLocked, cardCount, isPlaying,
    \* the caller's side of the Matching game: the last call, its result,
    \* and the unlock closures whose 1000 ms timers have not fired yet
    gameCall, gameResult, pairResults, won, sessions, ownUnlocks,
    staleUnlocks,
    \* Valuation.state
    v_mode, v_currentRound, v_correctCount, v_usedCardIds, v_roundCards,
    v_selectedCard, v_placements, v_roundHistory, v_isPlaying,
    v_awaitingNextRound,
    \* what the last Valuation call returned
    valResult,
    \* Guess.state
    g_currentRound, g_totalPoints, g_usedCardIds, g_currentCard,
    g_attemptsRemaining, g_nameCorrect, g_yearCorrect, g_namePointsEarned,
    g_yearPointsEarned, g_roundHistory, g_isPlaying, g_awaitingNextRound,
    \* what the last Guess call returned, and the rounds of the session that
    \* a setupRound replaced before they ended
    guessResult, g_abandoned,
    \* the last Guess.fuzzyMatch call: its arguments and what it returned
    fuzzyCall,
    \* the last Cards.getAdjacentValues call: its argument and the options
    \* it returned
    adjCall,
    \* localStorage under HighScores.storageKey, and the last HighScores call
    storage, scoreCall,
    \* App.currentCardCount, and the 800 ms victory timers that have not
    \* fired yet
    currentCardCount, victoryTimers

cardsVars == <<allCards, isLoaded, loadReturned, refetched>>
gameState == <<cards, flippedCards, matchedPairs, turns, isLocked, cardCount,
               isPlaying>>
gameGhost == <<gameCall, gameResult, pairResults, won, sessions, ownUnlocks,
               staleUnlocks>>
gameVars  == <<gameState, gameGhost>>
valState  == <<v_mode, v_currentRound, v_correctCount, v_usedCardIds,
               v_roundCards, v_selectedCard, v_placements, v_roundHistory,
               v_isPlaying, v_awaitingNextRound>>
valVars   == <<valState, valResult>>
guessState == <<g_currentRound, g_totalPoints, g_usedCardIds, g_currentCard,
                g_attemptsRemaining, g_nameCorrect, g_yearCorrect,
                g_namePointsEarned, g_yearPointsEarned, g_roundHistory,
                g_isPlaying, g_awaitingNextRound>>
guessVars  == <<guessState, guessResult, g_abandoned>>
scoreVars  == <<storage, scoreCall>>
appVars    == <<currentCardCount, victoryTimers>>
\* what the Matching, the Valuation and the Guess engine never touch
notGameVars  == <<valVars, guessVars, fuzzyCall, adjCall, scoreVars>>
notValVars   == <<gameVars, guessVars, fuzzyCall, adjCall, scoreVars,
                   appVars>>
notGuessVars == <<gameVars, valVars, fuzzyCall, adjCall, scoreVars,
                   appVars>>
vars      == <<cardsVars, gameVars, valVars, guessVars, fuzzyCall, adjCall,
               scoreVars, appVars>>

-----------------------------------------------------------------------------
(* Bounds *)

\* largest cardCount handed to Game.init
MaxCardCount == 2
\* mismatched pairs explored per Matching session
MaxMismatches == 2
\* Game.init / Game.reset calls explored
MaxSessions == 2
\* Valuation and Guess rounds explored per session
MaxRounds == 6
\* Guess rounds per session that do not end with 6 points: recorded with
\* fewer, or replaced by a setupRound before they ended
MaxOffRounds == 1
\* largest score handed to HighScores.save
MaxScore == 3

-----------------------------------------------------------------------------
(* Generic helpers *)

Range(s) == {s[i] : i \in 1..Len(s)}

Min(a, b) == IF a < b THEN a ELSE b

\* Array.prototype.indexOf, 1-based; 0 when absent
IndexOf(s, x) ==
    IF \E i \in 1..Len(s) : s[i] = x
    THEN CHOOSE i \in 1..Len(s) : s[i] = x /\ \A j \in 1..(i-1) : s[j] # x
    ELSE 0

-----------------------------------------------------------------------------
(* Cards *)

\* the catalog served by data/cards.json: display values are strings, kept
\* as character sequences; two cards share the numeric value 1000
Catalog ==
    << [id |-> "c1", estimatedValue |-> <<"$","1",",","0","0","0">>],
       [id |-> "c2", estimatedValue |-> <<"$","1",",","0","0","0","+">>],
       [id |-> "c3", estimatedValue |-> <<"$","9","0","0">>],
       [id |-> "c4", estimatedValue |-> <<"$","2",",","5","0","0">>] >>

CatalogIds == {Catalog[i].id : i \in 1..Len(Catalog)}

\* a cards.json with more cards than the window of getAdjacentValues spans,
\* in file order: two cards share the display value "$3,000", two others
\* the numeric value 5000
WideCatalog ==
    << [id |-> "w1", estimatedValue |-> <<"$","5",",","0","0","0">>],
       [id |-> "w2", estimatedValue |-> <<"$","9",",","0","0","0">>],
       [id |-> "w3", estimatedValue |-> <<"$","3",",","0","0","0">>],
       [id |-> "w4", estimatedValue |-> <<"$","7",",","0","0","0">>],
       [id |-> "w5", estimatedValue |-> <<"$","5",",","0","0","0","+">>],
       [id |-> "w6", estimatedValue |-> <<"$","8",",","0","0","0">>],
       [id |-> "w7", estimatedValue |-> <<"$","3",",","0","0","0">>],
       [id |-> "w8", estimatedValue |-> <<"$","6",",","0","0","0">>],
       [id |-> "w9", estimatedValue |-> <<"$","4",",","0","0","0">>] >>

Digits == <<"0","1","2","3","4","5","6","7","8","9">>
IsDigit(ch) == ch \in Range(Digits)
DigitVal(ch) == IndexOf(Digits, ch) - 1

\* the value parseInt gives for a string with no leading digit
NaN == -1

\* String.prototype.replace(/[$,+]/g, '')
RECURSIVE StripFormat(_)
StripFormat(str) ==
    IF str = <<>> THEN <<>>
    ELSE IF Head(str) \in {"$", ",", "+"} THEN StripFormat(Tail(str))
         ELSE <<Head(str)>> \o StripFormat(Tail(str))

\* parseInt(str, 10) on an unsigned string: the leading run of digits
RECURSIVE ParseDigits(_, _)
ParseDigits(str, acc) ==
    IF str = <<>> \/ ~IsDigit(Head(str)) THEN acc
    ELSE ParseDigits(Tail(str), acc * 10 + DigitVal(Head(str)))

ParseInt(str) ==
    IF str = <<>> \/ ~IsDigit(Head(str)) THEN NaN ELSE ParseDigits(str, 0)

parseValue(valueString) == ParseInt(StripFormat(valueString))

getCardById(id) ==
    IF \E i \in 1..Len(allCards) : allCards[i].id = id
    THEN allCards[IndexOf([i \in 1..Len(allCards) |-> allCards[i].id], id)]
    ELSE [id |-> "null", estimatedValue |-> <<>>]

\* the fetch of Cards.load and what follows it: the list is stored and
\* returned, or the catch returns []; refetched records a fetch made while
\* the list was already cached
Fetch ==
    /\ refetched' = (refetched \/ isLoaded)
    /\ \/ allCards' = Catalog /\ isLoaded' = TRUE /\ loadReturned' = Catalog
       \/ UNCHANGED <<allCards, isLoaded>> /\ loadReturned' = <<>>

load_NoCache == Fetch

\* Cards.load: returns the cached list once loaded; otherwise fetches
load ==
    IF isLoaded
    THEN UNCHANGED <<allCards, isLoaded, refetched>> /\ loadReturned' = allCards
    ELSE Fetch

\* App.init's await Cards.load()
Load ==
    /\ load
    /\ UNCHANGED <<gameVars, valVars, guessVars, fuzzyCall, adjCall, scoreVars,
                   appVars>>

\* the orders [...arr].sort(() => Math.random() - 0.5) is taken to produce:
\* arr as it is (every comparison keeps the pair) and arr reversed (every
\* comparison swaps it)
Reverse(arr) == [i \in 1..Len(arr) |-> arr[Len(arr) + 1 - i]]

RandomOrders(arr) == {arr, Reverse(arr)}

\* Array.prototype.slice(0, count)
Slice(arr, count) == SubSeq(arr, 1, Min(count, Len(arr)))

\* Cards.selectRandom(count)
selectRandom(all, count) ==
    {Slice(shuffled, count) : shuffled \in RandomOrders(all)}

RECURSIVE Doubled_SameSuffix(_)
Doubled_SameSuffix(selected) ==
    IF selected = <<>> THEN <<>>
    ELSE << [id |-> Head(selected).id, tileId |-> <<Head(selected).id, "a">>],
            [id |-> Head(selected).id, tileId |-> <<Head(selected).id, "a">>] >>
         \o Doubled_SameSuffix(Tail(selected))

\* the two tiles pushed for each selected card, in selection order
RECURSIVE Doubled(_)
Doubled(selected) ==
    IF selected = <<>> THEN <<>>
    ELSE << [id |-> Head(selected).id, tileId |-> <<Head(selected).id, "a">>],
            [id |-> Head(selected).id, tileId |-> <<Head(selected).id, "b">>] >>
         \o Doubled(Tail(selected))

Swap(deck, i, j) ==
    [deck EXCEPT ![i] = deck[j], ![j] = deck[i]]

\* the values Math.floor(Math.random() * (i + 1)) is drawn from, for the
\* 1-based position i: Math.random() = 0, which sends tile i to the front
RandomIndex(i) == {1}

\* the Fisher-Yates loop from position i down to 2
RECURSIVE FisherYates(_, _)
FisherYates(deck, i) ==
    IF i <= 1 THEN {deck}
    ELSE UNION {FisherYates(Swap(deck, i, j), i - 1) : j \in RandomIndex(i)}

prepareGameDeck(selected) ==
    FisherYates(Doubled(selected), Len(Doubled(selected)))

-----------------------------------------------------------------------------------------------------------------------------------------------------
(* Game *)

\* tile ids a click can carry: the tiles of every catalog card, and one
\* that no deck holds
TileIds == (CatalogIds \X {"a", "b"}) \cup {<<"zz", "a">>}

NoGameResult == [action |-> "none", isVictory |-> FALSE, turns |-> 0]
Ignored == [action |-> "ignored", isVictory |-> FALSE, turns |-> 0]

\* this.state.cards.find(c => c.tileId === tileId): its index, 0 when absent
FindTile(deck, tileId) ==
    IndexOf([i \in 1..Len(deck) |-> deck[i].tileId], tileId)

isVictory_Early(matched, count) == Len(matched) > 0

\* Game.isVictory, on the state it is called in
isVictory(matched, count) == Len(matched) = count

\* the caller's record of a call: which method, what it returned, how many
\* results of the session were 'match' or 'mismatch', and whether one of
\* them carried isVictory
Returns(call, res) ==
    /\ gameCall' = call
    /\ gameResult' = res
    /\ pairResults' =
           pairResults + (IF res.action \in {"match", "mismatch"} THEN 1 ELSE 0)
    /\ won' = (won \/ res.isVictory)

\* a new session begins: closures of the one before stay with their timers
NewSession(call) ==
    /\ gameCall' = call
    /\ gameResult' = NoGameResult
    /\ pairResults' = 0
    /\ won' = FALSE
    /\ sessions' = sessions + 1
    /\ staleUnlocks' = staleUnlocks + ownUnlocks
    /\ ownUnlocks' = 0

\* Game.init(cardCount), with the Cards.load it awaits
GameInit(n) ==
    /\ sessions < MaxSessions
    /\ load
    /\ flippedCards' = <<>>
    /\ matchedPairs' = <<>>
    /\ turns' = 0
    /\ isLocked' = FALSE
    /\ cardCount' = n
    /\ isPlaying' = TRUE
    /\ \E selected \in selectRandom(allCards', n) :
           cards' \in prepareGameDeck(selected)
    /\ NewSession("init")
    /\ UNCHANGED notGameVars

\* Game.reset
GameReset ==
    /\ sessions < MaxSessions
    /\ cards' = <<>>
    /\ flippedCards' = <<>>
    /\ matchedPairs' = <<>>
    /\ turns' = 0
    /\ isLocked' = FALSE
    /\ isPlaying' = FALSE
    /\ UNCHANGED cardCount
    /\ NewSession("reset")
    /\ UNCHANGED <<cardsVars, notGameVars, appVars>>

handleMatch_PushBoth(pushed) ==
    /\ matchedPairs' = matchedPairs \o <<pushed[1].id, pushed[2].id>>
    /\ flippedCards' = <<>>
    /\ UNCHANGED <<isLocked, ownUnlocks>>
    /\ Returns("flipCard", [action |-> "match",
                            isVictory |-> isVictory(matchedPairs', cardCount),
                            turns |-> turns'])

\* Game.handleMatch
handleMatch(pushed) ==
    /\ matchedPairs' = Append(matchedPairs, pushed[1].id)
    /\ flippedCards' = <<>>
    /\ UNCHANGED <<isLocked, ownUnlocks>>
    /\ Returns("flipCard", [action |-> "match",
                            isVictory |-> isVictory(matchedPairs', cardCount),
                            turns |-> turns'])

handleMismatch_NoLock(pushed) ==
    /\ UNCHANGED isLocked
    /\ flippedCards' = pushed
    /\ ownUnlocks' = ownUnlocks + 1
    /\ UNCHANGED matchedPairs
    /\ Returns("flipCard", [action |-> "mismatch", isVictory |-> FALSE,
                            turns |-> turns'])

\* Game.handleMismatch: the returned unlock closure goes to the caller
handleMismatch(pushed) ==
    /\ isLocked' = TRUE
    /\ flippedCards' = pushed
    /\ ownUnlocks' = ownUnlocks + 1
    /\ UNCHANGED matchedPairs
    /\ Returns("flipCard", [action |-> "mismatch", isVictory |-> FALSE,
                            turns |-> turns'])

FlipRejected_Reflip(tileId) ==
    \/ isLocked \/ ~isPlaying
    \/ FindTile(cards, tileId) = 0
    \/ cards[FindTile(cards, tileId)].id \in Range(matchedPairs)

FlipRejected_Rematch(tileId) ==
    \/ isLocked \/ ~isPlaying
    \/ FindTile(cards, tileId) = 0
    \/ \E i \in 1..Len(flippedCards) : flippedCards[i].tileId = tileId

\* the early returns of Game.flipCard
FlipRejected(tileId) ==
    \/ isLocked \/ ~isPlaying
    \/ FindTile(cards, tileId) = 0
    \/ \E i \in 1..Len(flippedCards) : flippedCards[i].tileId = tileId
    \/ cards[FindTile(cards, tileId)].id \in Range(matchedPairs)

incrementTurns_OnEveryFlip(pushed) == turns + 1

\* the turn counter after a flip was pushed: this.state.turns++ is reached
\* only past the return of a first flip
incrementTurns(pushed) == IF Len(pushed) = 1 THEN turns ELSE turns + 1

\* Game.flipCard(tileId)
FlipCard(tileId) ==
    /\ UNCHANGED <<cardsVars, notGameVars, cards, cardCount, isPlaying, sessions,
                   staleUnlocks>>
    /\ IF FlipRejected(tileId)
       THEN /\ Returns("flipCard", Ignored)
            /\ UNCHANGED <<flippedCards, matchedPairs, turns, isLocked,
                           ownUnlocks>>
       ELSE LET pushed == Append(flippedCards, cards[FindTile(cards, tileId)])
            IN
            /\ turns' = incrementTurns(pushed)
            /\ IF Len(pushed) = 1
               THEN /\ flippedCards' = pushed
                    /\ Returns("flipCard", [action |-> "flipped",
                                            isVictory |-> FALSE, turns |-> 0])
                    /\ UNCHANGED <<matchedPairs, isLocked, ownUnlocks>>
               ELSE IF pushed[1].id = pushed[2].id
               THEN handleMatch(pushed)
               ELSE /\ turns - Len(matchedPairs) < MaxMismatches
                    /\ handleMismatch(pushed)

unlock_KeepBuffer ==
    /\ flippedCards' = flippedCards
    /\ isLocked' = FALSE
    /\ UNCHANGED <<cardsVars, notGameVars, cards, matchedPairs, turns, cardCount,
                   isPlaying, sessions, pairResults, won, appVars>>
    /\ gameResult' = NoGameResult

\* the body of the closure handleMismatch returns
unlock ==
    /\ flippedCards' = <<>>
    /\ isLocked' = FALSE
    /\ UNCHANGED <<cardsVars, notGameVars, cards, matchedPairs, turns, cardCount,
                   isPlaying, sessions, pairResults, won, appVars>>
    /\ gameResult' = NoGameResult

\* the timer of a mismatch of the running session fires
Unlock ==
    /\ ownUnlocks > 0
    /\ ownUnlocks' = ownUnlocks - 1
    /\ UNCHANGED staleUnlocks
    /\ gameCall' = "unlock"
    /\ unlock

\* the timer of a mismatch of an earlier session fires
StaleUnlock ==
    /\ staleUnlocks > 0
    /\ staleUnlocks' = staleUnlocks - 1
    /\ UNCHANGED ownUnlocks
    /\ gameCall' = "staleUnlock"
    /\ unlock

-----------------------------------------------------------------------------
(* Valuation *)

Modes == {"3-card", "2-card", "1-card"}

\* Cards.parseValue(card.estimatedValue)
ValueOf(card) == parseValue(card.estimatedValue)

\* the comparator of Cards.sortByValue: negative when a goes before b
CompareByValue(a, b, descending) ==
    IF descending THEN ValueOf(b) - ValueOf(a) ELSE ValueOf(a) - ValueOf(b)

\* one insertion of a stable sort: x goes behind every element it does not
\* precede
RECURSIVE InsertSorted(_, _, _)
InsertSorted(sorted, x, descending) ==
    IF sorted = <<>> THEN <<x>>
    ELSE IF CompareByValue(x, Head(sorted), descending) < 0
         THEN <<x>> \o sorted
         ELSE <<Head(sorted)>> \o InsertSorted(Tail(sorted), x, descending)

sortByValue_Ascending(arr, descending) ==
    LET RECURSIVE Go(_, _)
        Go(rest, acc) ==
            IF rest = <<>> THEN acc
            ELSE Go(Tail(rest), InsertSorted(acc, Head(rest), FALSE))
    IN Go(arr, <<>>)

\* Cards.sortByValue(cards, descending)
sortByValue(arr, descending) ==
    LET RECURSIVE Go(_, _)
        Go(rest, acc) ==
            IF rest = <<>> THEN acc
            ELSE Go(Tail(rest), InsertSorted(acc, Head(rest), descending))
    IN Go(arr, <<>>)

\* the candidate pool of Cards.getAdjacentValues: for offset 1, 2, 3 the card
\* below and then the card above position cardIndex of sorted, each taken
\* when its display string is not in uniqueValues yet
RECURSIVE CandidatePool(_, _, _, _, _)
CandidatePool(sorted, cardIndex, offset, pool, uniqueValues) ==
    IF offset > 3 THEN pool
    ELSE LET lower     == cardIndex + offset
             takeLower == /\ lower <= Len(sorted)
                          /\ sorted[lower].estimatedValue \notin uniqueValues
             pool1     == IF takeLower THEN Append(pool, sorted[lower])
                          ELSE pool
             unique1   == IF takeLower
                          THEN uniqueValues \cup {sorted[lower].estimatedValue}
                          ELSE uniqueValues
             higher     == cardIndex - offset
             takeHigher == /\ higher >= 1
                           /\ sorted[higher].estimatedValue \notin unique1
             pool2      == IF takeHigher THEN Append(pool1, sorted[higher])
                           ELSE pool1
             unique2    == IF takeHigher
                           THEN unique1 \cup {sorted[higher].estimatedValue}
                           ELSE unique1
         IN CandidatePool(sorted, cardIndex, offset + 1, pool2, unique2)

\* [...candidatePool].sort(() => Math.random() - 0.5).slice(0, 2): any two
\* candidates in any order, or the whole pool when it holds fewer than two
RandomTwo(pool) ==
    IF Len(pool) < 2 THEN {pool}
    ELSE {<<pool[i], pool[j]>> : i, j \in 1..Len(pool)} \
            {<<pool[i], pool[i]>> : i \in 1..Len(pool)}

\* one insertion of options.sort((a, b) => parseValue(a) - parseValue(b))
RECURSIVE InsertOption(_, _)
InsertOption(sorted, x) ==
    IF sorted = <<>> THEN <<x>>
    ELSE IF parseValue(x) - parseValue(Head(sorted)) < 0
         THEN <<x>> \o sorted
         ELSE <<Head(sorted)>> \o InsertOption(Tail(sorted), x)

sortOptions_Descending(options) ==
    LET RECURSIVE Go(_, _)
        Go(rest, acc) ==
            IF rest = <<>> THEN acc
            ELSE Go(Tail(rest), InsertOption(acc, Head(rest)))
    IN Reverse(Go(options, <<>>))

\* the ascending sort of the options
sortOptions(options) ==
    LET RECURSIVE Go(_, _)
        Go(rest, acc) ==
            IF rest = <<>> THEN acc
            ELSE Go(Tail(rest), InsertOption(acc, Head(rest)))
    IN Go(options, <<>>)

\* Cards.getAdjacentValues(cardId): the option lists it can return
getAdjacentValues(cardId) ==
    LET card == getCardById(cardId)
    IN IF card.id = "null" THEN {<<>>}
       ELSE LET sorted    == sortByValue(allCards, TRUE)
                cardIndex == IndexOf([i \in 1..Len(sorted) |-> sorted[i].id],
                                     cardId)
                candidatePool ==
                    CandidatePool(sorted, cardIndex, 1, <<>>,
                                  {card.estimatedValue})
            IN { sortOptions(<<card.estimatedValue>>
                               \o [i \in 1..Len(selectedCards) |->
                                      selectedCards[i].estimatedValue]) :
                    selectedCards \in RandomTwo(candidatePool) }

NoAdjCall == [cardId |-> "null", options |-> <<>>]

\* Valuation.getValueOptions(card), which hands card.id to getAdjacentValues
GetValueOptions(cardId) ==
    /\ \E options \in getAdjacentValues(cardId) :
          adjCall' = [cardId |-> cardId, options |-> options]
    /\ UNCHANGED <<cardsVars, gameVars, valVars, guessVars, fuzzyCall,
                   scoreVars, appVars>>

\* the loop of Valuation.selectCardsWithUniqueValues over the shuffled pool
RECURSIVE PickUnique(_, _, _, _)
PickUnique(shuffled, count, selected, usedValues) ==
    IF shuffled = <<>> \/ Len(selected) = count THEN selected
    ELSE IF ValueOf(Head(shuffled)) \notin usedValues
         THEN PickUnique(Tail(shuffled), count, Append(selected, Head(shuffled)),
                         usedValues \cup {ValueOf(Head(shuffled))})
         ELSE PickUnique(Tail(shuffled), count, selected, usedValues)

RECURSIVE PickFirst(_, _, _, _)
PickFirst(shuffled, count, selected, usedValues) ==
    IF shuffled = <<>> \/ Len(selected) = count THEN selected
    ELSE PickFirst(Tail(shuffled), count, Append(selected, Head(shuffled)),
                   usedValues)

selectCardsWithUniqueValues_AnyValue(pool, count) ==
    {PickFirst(shuffled, count, <<>>, {}) : shuffled \in RandomOrders(pool)}

\* Valuation.selectCardsWithUniqueValues(pool, count)
selectCardsWithUniqueValues(pool, count) ==
    {PickUnique(shuffled, count, <<>>, {}) : shuffled \in RandomOrders(pool)}

Unused_NoFilter(arr, used) == arr

\* Cards.allCards.filter(c => !usedCardIds.includes(c.id))
RECURSIVE Unused(_, _)
Unused(arr, used) ==
    IF arr = <<>> THEN <<>>
    ELSE IF Head(arr).id \notin used
         THEN <<Head(arr)>> \o Unused(Tail(arr), used)
         ELSE Unused(Tail(arr), used)

\* cards.map(c => c.id)
Ids(arr) == [i \in 1..Len(arr) |-> arr[i].id]

NoPlacements == <<"null", "null", "null">>
\* a result, with the answer the caller passed when it was accepted
NoValResult == [action |-> "none", isCorrect |-> FALSE, isGameOver |-> FALSE,
                canSubmit |-> FALSE, answer |-> "null"]
ValIgnored == [NoValResult EXCEPT !.action = "ignored"]

RoundSize(mode) == IF mode = "3-card" THEN 3 ELSE IF mode = "2-card" THEN 2 ELSE 1

\* the body of Valuation.setupRound, from the used ids it starts with
setupRound(used) ==
    LET unused    == Unused(allCards', used)
        exhausted == Len(unused) < RoundSize(v_mode')
        available == IF exhausted THEN allCards' ELSE unused
        usedBase  == IF exhausted THEN {} ELSE used
    IN
    /\ v_roundCards' \in selectCardsWithUniqueValues(available, RoundSize(v_mode'))
    /\ v_usedCardIds' = usedBase \cup Range(Ids(v_roundCards'))
    /\ v_selectedCard' = "null"
    /\ v_placements' = NoPlacements
    /\ v_awaitingNextRound' = FALSE
    /\ valResult' = [NoValResult EXCEPT !.action = "round"]

\* Valuation.init(mode), with the Cards.load it awaits
ValInit(mode) ==
    /\ load
    /\ v_mode' = mode
    /\ v_currentRound' = 0
    /\ v_correctCount' = 0
    /\ v_roundHistory' = <<>>
    /\ v_isPlaying' = TRUE
    /\ setupRound({})
    /\ UNCHANGED notValVars

\* Valuation.setupRound, called when the reveal timer fires
SetupRound ==
    /\ v_isPlaying
    /\ UNCHANGED <<cardsVars, notValVars, v_mode, v_currentRound, v_correctCount,
                   v_roundHistory, v_isPlaying>>
    /\ setupRound(v_usedCardIds)

\* Valuation.selectCard(cardId)
SelectCard(cardId) ==
    /\ v_isPlaying /\ v_mode = "3-card"
    /\ IF v_awaitingNextRound
       THEN valResult' = ValIgnored /\ UNCHANGED v_selectedCard
       ELSE /\ v_selectedCard' = cardId
            /\ valResult' = [NoValResult EXCEPT !.action = "selected"]
    /\ UNCHANGED <<cardsVars, notValVars, v_mode, v_currentRound, v_correctCount,
                   v_usedCardIds, v_roundCards, v_placements, v_roundHistory,
                   v_isPlaying, v_awaitingNextRound>>

placeCard_NoEviction(position) ==
    [v_placements EXCEPT ![position] = v_selectedCard]

\* the placements Valuation.placeCard leaves: the pending card leaves the
\* slot it held and takes the slot at position
placeCard(position) ==
    LET existingPos == IndexOf(v_placements, v_selectedCard)
        cleared == IF existingPos # 0
                   THEN [v_placements EXCEPT ![existingPos] = "null"]
                   ELSE v_placements
    IN [cleared EXCEPT ![position] = v_selectedCard]

\* Valuation.placeCard(position), position counted from 1
PlaceCard(position) ==
    /\ v_isPlaying /\ v_mode = "3-card"
    /\ IF v_selectedCard = "null" \/ v_awaitingNextRound
       THEN valResult' = ValIgnored /\ UNCHANGED <<v_placements, v_selectedCard>>
       ELSE /\ v_placements' = placeCard(position)
            /\ v_selectedCard' = "null"
            /\ valResult' =
                 [NoValResult EXCEPT
                    !.action = "placed",
                    !.canSubmit = \A i \in 1..Len(v_placements') :
                                      v_placements'[i] # "null"]
    /\ UNCHANGED <<cardsVars, notValVars, v_mode, v_currentRound, v_correctCount,
                   v_usedCardIds, v_roundCards, v_roundHistory, v_isPlaying,
                   v_awaitingNextRound>>

\* the answers a click can carry: a card id in '2-card' mode, a display
\* value in '1-card' mode; '3-card' mode reads the placements instead
Answers(mode) ==
    IF mode = "2-card" THEN CatalogIds
    ELSE IF mode = "1-card"
         THEN {Catalog[i].estimatedValue : i \in 1..Len(Catalog)}
         ELSE {"placements"}

\* the switch of Valuation.submitAnswer throws when it reads estimatedValue
\* of a round card that is not there
SubmitThrows ==
    \/ v_mode = "2-card" /\ Len(v_roundCards) < 2
    \/ v_mode = "1-card" /\ Len(v_roundCards) < 1

isCorrect_FirstCard(answer) ==
    IF v_mode = "3-card"
    THEN v_placements = Ids(sortByValue(v_roundCards, TRUE))
    ELSE IF v_mode = "2-card"
         THEN answer = v_roundCards[1].id
         ELSE answer = v_roundCards[1].estimatedValue

\* the switch of Valuation.submitAnswer
isCorrect(answer) ==
    IF v_mode = "3-card"
    THEN v_placements = Ids(sortByValue(v_roundCards, TRUE))
    ELSE IF v_mode = "2-card"
         THEN answer = (IF ValueOf(v_roundCards[1]) > ValueOf(v_roundCards[2])
                        THEN v_roundCards[1].id ELSE v_roundCards[2].id)
         ELSE answer = v_roundCards[1].estimatedValue

isGameOver_AtFour(round) == round >= 4

\* const isGameOver = this.state.currentRound >= 5, on the advanced round
isGameOver(round) == round >= 5

awaitingGuard_Off == FALSE

\* the guard Valuation.submitAnswer opens with
awaitingGuard == v_awaitingNextRound

incrementCorrect_Always(correct) == v_correctCount + 1

\* if (isCorrect) this.state.correctCount++
incrementCorrect(correct) == v_correctCount + (IF correct THEN 1 ELSE 0)

\* Valuation.submitAnswer(answer)
SubmitAnswer(answer) ==
    /\ v_isPlaying
    /\ UNCHANGED <<cardsVars, notValVars, v_mode, v_usedCardIds, v_roundCards,
                   v_selectedCard, v_placements, v_isPlaying>>
    /\ IF awaitingGuard
       THEN /\ valResult' = ValIgnored
            /\ UNCHANGED <<v_currentRound, v_correctCount, v_roundHistory,
                           v_awaitingNextRound>>
       ELSE IF SubmitThrows
       THEN /\ valResult' = [NoValResult EXCEPT !.action = "threw"]
            /\ UNCHANGED <<v_currentRound, v_correctCount, v_roundHistory,
                           v_awaitingNextRound>>
       ELSE /\ v_currentRound < MaxRounds
            /\ v_correctCount' = incrementCorrect(isCorrect(answer))
            /\ v_roundHistory' =
                 Append(v_roundHistory, [round |-> v_currentRound + 1,
                                         isCorrect |-> isCorrect(answer)])
            /\ v_currentRound' = v_currentRound + 1
            /\ v_awaitingNextRound' = TRUE
            /\ valResult' = [action |-> "answered",
                             isCorrect |-> isCorrect(answer),
                             isGameOver |-> isGameOver(v_currentRound'),
                             canSubmit |-> FALSE,
                             answer |-> answer]

-----------------------------------------------------------------------------
(* Guess *)

\* the fields of the catalog's cards that the Guess engine reads, by card id:
\* playerName as a character sequence, year as the number the JSON holds
CardFace ==
    [ c1 |-> [playerName |-> <<"H","o","n","u","s"," ","W","a","g","n","e","r">>, year |-> 1909],
      c2 |-> [playerName |-> <<"T","y"," ","C","o","b","b">>, year |-> 1911],
      c3 |-> [playerName |-> <<"S","h","o","e","l","e","s","s"," ","J","o","e"," ","J","a","c","k","s","o","n">>, year |-> 1909],
      c4 |-> [playerName |-> <<"E","d","d","i","e"," ","P","l","a","n","k">>, year |-> 1911] ]

\* card.playerName and card.year
playerName(card) == CardFace[card.id].playerName
year(card) == CardFace[card.id].year

\* the value of currentCard when there is no card: null after reset,
\* undefined after a draw from an empty catalog
NoCard == [id |-> "null", estimatedValue |-> <<>>]

UpperCase == <<"A","B","C","D","E","F","G","H","I","J","K","L","M","N","O","P","Q","R","S","T","U","V","W","X","Y","Z">>
LowerCase == <<"a","b","c","d","e","f","g","h","i","j","k","l","m","n","o","p","q","r","s","t","u","v","w","x","y","z">>

\* String.prototype.toLowerCase
toLowerCase(str) ==
    [i \in 1..Len(str) |->
        IF IndexOf(UpperCase, str[i]) # 0
        THEN LowerCase[IndexOf(UpperCase, str[i])] ELSE str[i]]

\* String.prototype.trim, for the whitespace the inputs hold: the space
RECURSIVE TrimStart(_)
TrimStart(str) ==
    IF str # <<>> /\ Head(str) = " " THEN TrimStart(Tail(str)) ELSE str

RECURSIVE TrimEnd(_)
TrimEnd(str) ==
    IF str # <<>> /\ str[Len(str)] = " "
    THEN TrimEnd(SubSeq(str, 1, Len(str) - 1)) ELSE str

trim(str) == TrimEnd(TrimStart(str))

\* String.prototype.split(' '): the pieces between the spaces, empty pieces
\* included; acc is the piece being read
RECURSIVE SplitFrom(_, _)
SplitFrom(str, acc) ==
    IF str = <<>> THEN <<acc>>
    ELSE IF Head(str) = " " THEN <<acc>> \o SplitFrom(Tail(str), <<>>)
         ELSE SplitFrom(Tail(str), Append(acc, Head(str)))

split(str) == SplitFrom(str, <<>>)

fuzzyMatch_LastNameOnly(input, card) ==
    LET fullName   == toLowerCase(playerName(card))
        nameParts  == split(fullName)
        inputParts == split(input)
        cardLastName  == nameParts[Len(nameParts)]
        inputLastName == inputParts[Len(inputParts)]
    IN
    \/ fullName = input
    \/ Len(inputParts) > 1 /\ cardLastName = inputLastName
    \/ Len(inputParts) = 1 /\ cardLastName = input

\* Guess.fuzzyMatch(input, card)
fuzzyMatch(input, card) ==
    LET fullName   == toLowerCase(playerName(card))
        nameParts  == split(fullName)
        inputParts == split(input)
        cardLastName  == nameParts[Len(nameParts)]
        inputLastName == inputParts[Len(inputParts)]
        firstName     == nameParts[1]
    IN
    \/ fullName = input
    \/ Len(inputParts) > 1 /\ cardLastName = inputLastName
    \/ Len(inputParts) = 1 /\ cardLastName = input
    \/ Len(inputParts) = 1 /\ firstName = input
    \/ Len(inputParts) = 1 /\ \E k \in 1..Len(nameParts) : nameParts[k] = input

calculatePoints_Flat(attemptsUsed) ==
    IF attemptsUsed \in {1, 2, 3} THEN 3 ELSE 0

\* Guess.calculatePoints(attemptsUsed)
calculatePoints(attemptsUsed) ==
    CASE attemptsUsed = 1 -> 3
      [] attemptsUsed = 2 -> 2
      [] attemptsUsed = 3 -> 1
      [] OTHER -> 0

getBlurAmount_Rising(attemptsRemaining) ==
    CASE attemptsRemaining = 3 -> 20
      [] attemptsRemaining = 2 -> 10
      [] attemptsRemaining = 1 -> 5
      [] OTHER -> 20

\* Guess.getBlurAmount, on the attemptsRemaining of the state it reads
getBlurAmount(attemptsRemaining) ==
    CASE attemptsRemaining = 3 -> 20
      [] attemptsRemaining = 2 -> 10
      [] attemptsRemaining = 1 -> 5
      [] OTHER -> 0

NoGuessResult ==
    [action |-> "none", nameMatch |-> FALSE, yearMatch |-> FALSE,
     namePointsThisAttempt |-> 0, yearPointsThisAttempt |-> 0,
     isRoundOver |-> FALSE, isGameOver |-> FALSE, blurAmount |-> 0]
GuessIgnored == [NoGuessResult EXCEPT !.action = "ignored"]

NoFuzzyCall == [input |-> <<>>, card |-> "null", result |-> FALSE]

\* the values Math.floor(Math.random() * available.length) is drawn from,
\* as 1-based position: Math.random() = 0, the first available card
GuessRandomIndex(n) == {1}

\* the body of Guess.setupRound, from the used ids and the awaitingNextRound
\* it starts with; on an empty catalog available[0] is undefined and reading
\* its id throws, past the assignments to usedCardIds and currentCard
setupGuessRound(used, awaiting) ==
    LET unused    == Unused(allCards', Range(used))
        exhausted == Len(unused) = 0
        available == IF exhausted THEN allCards' ELSE unused
        usedBase  == IF exhausted THEN <<>> ELSE used
    IN
    IF available = <<>>
    THEN /\ g_usedCardIds' = usedBase
         /\ g_currentCard' = NoCard
         /\ g_awaitingNextRound' = awaiting
         /\ UNCHANGED <<g_attemptsRemaining, g_nameCorrect, g_yearCorrect,
                        g_namePointsEarned, g_yearPointsEarned>>
         /\ guessResult' = [NoGuessResult EXCEPT !.action = "threw"]
    ELSE /\ \E randomIndex \in GuessRandomIndex(Len(available)) :
               g_currentCard' = available[randomIndex]
         /\ g_usedCardIds' = Append(usedBase, g_currentCard'.id)
         /\ g_attemptsRemaining' = 3
         /\ g_nameCorrect' = FALSE
         /\ g_yearCorrect' = FALSE
         /\ g_namePointsEarned' = 0
         /\ g_yearPointsEarned' = 0
         /\ g_awaitingNextRound' = FALSE
         /\ guessResult' =
              [NoGuessResult EXCEPT
                 !.action = "round",
                 !.blurAmount = getBlurAmount(g_attemptsRemaining')]

\* Guess.init, with the Cards.load it awaits
GuessInit ==
    /\ load
    /\ g_currentRound' = 0
    /\ g_totalPoints' = 0
    /\ g_roundHistory' = <<>>
    /\ g_isPlaying' = TRUE
    /\ g_abandoned' = 0
    /\ setupGuessRound(<<>>, FALSE)
    /\ UNCHANGED notGuessVars

\* rounds recorded with fewer than the 6 points a round can give
ImperfectRounds ==
    Cardinality({k \in 1..Len(g_roundHistory) :
                    g_roundHistory[k].totalPointsEarned < 6})

\* a round is in play: a card is shown and its round has not ended
RoundOpen == ~g_awaitingNextRound /\ g_currentCard # NoCard

\* Guess.setupRound, called at any time of a session
GuessSetupRound ==
    /\ g_isPlaying
    /\ IF RoundOpen
       THEN /\ ImperfectRounds + g_abandoned < MaxOffRounds
            /\ g_abandoned' = g_abandoned + 1
       ELSE UNCHANGED g_abandoned
    /\ UNCHANGED <<cardsVars, notGuessVars, g_currentRound, g_totalPoints,
                   g_roundHistory, g_isPlaying>>
    /\ setupGuessRound(g_usedCardIds, g_awaitingNextRound)

\* Guess.setupRound, called as the round flow calls it: once a result has
\* ended the round (awaitingNextRound) without ending the game (isGameOver
\* is currentRound >= 5)
NextGuessRound ==
    /\ g_awaitingNextRound /\ g_currentRound < 5
    /\ GuessSetupRound

newlyCorrect_Always(alreadyCorrect, matches) == matches

\* a component matches 'only if not already correct'
newlyCorrect(alreadyCorrect, matches) == ~alreadyCorrect /\ matches

submitGuard_NoCardOnly == g_currentCard = NoCard

\* the guard Guess.submitGuess opens with
submitGuard == g_awaitingNextRound \/ g_currentCard = NoCard

isRoundOver_OnAnyMatch(bothCorrect, anyCorrect, attemptsRemaining) ==
    anyCorrect \/ attemptsRemaining = 0

\* const isRoundOver = bothCorrect || this.state.attemptsRemaining === 0
isRoundOver(bothCorrect, anyCorrect, attemptsRemaining) ==
    bothCorrect \/ attemptsRemaining = 0

decrementAttempts_OnMiss(attemptsRemaining, nameMatch, yearMatch) ==
    IF nameMatch \/ yearMatch THEN attemptsRemaining ELSE attemptsRemaining - 1

\* this.state.attemptsRemaining--
decrementAttempts(attemptsRemaining, nameMatch, yearMatch) ==
    attemptsRemaining - 1

nameCorrectAfter_Recheck(nameMatch, input) ==
    fuzzyMatch(input, g_currentCard)

\* nameCorrect after the submission: set when the name newly matched, left
\* alone otherwise
nameCorrectAfter(nameMatch, input) == g_nameCorrect \/ nameMatch

\* Guess.submitGuess(playerName, year): both arguments are strings
SubmitGuess(name, yearText) ==
    /\ UNCHANGED <<cardsVars, notGuessVars, g_usedCardIds, g_currentCard,
                   g_isPlaying, g_abandoned>>
    /\ IF submitGuard
       THEN /\ guessResult' = GuessIgnored
            /\ UNCHANGED <<g_currentRound, g_totalPoints, g_attemptsRemaining,
                           g_nameCorrect, g_yearCorrect, g_namePointsEarned,
                           g_yearPointsEarned, g_roundHistory,
                           g_awaitingNextRound>>
       ELSE \E normalizedInput \in {toLowerCase(trim(name))},
               inputYear \in {ParseInt(yearText)} :
            \E nameMatch \in {newlyCorrect(g_nameCorrect,
                                 fuzzyMatch(normalizedInput, g_currentCard))},
               yearMatch \in {newlyCorrect(g_yearCorrect,
                                 inputYear = year(g_currentCard))} :
            LET attemptsUsed == 4 - g_attemptsRemaining
                namePoints   == IF nameMatch THEN calculatePoints(attemptsUsed)
                                ELSE g_namePointsEarned
                yearPoints   == IF yearMatch THEN calculatePoints(attemptsUsed)
                                ELSE g_yearPointsEarned
                nameNow      == nameCorrectAfter(nameMatch, normalizedInput)
                yearNow      == g_yearCorrect \/ yearMatch
                remaining    == decrementAttempts(g_attemptsRemaining,
                                                  nameMatch, yearMatch)
                bothCorrect  == nameNow /\ yearNow
                over         == isRoundOver(bothCorrect, nameNow \/ yearNow,
                                            remaining)
            IN
            /\ g_currentRound < MaxRounds
            /\ (nameMatch /\ yearMatch /\ g_attemptsRemaining = 3)
                  \/ ImperfectRounds + g_abandoned < MaxOffRounds
            /\ g_nameCorrect' = nameNow
            /\ g_yearCorrect' = yearNow
            /\ g_namePointsEarned' = namePoints
            /\ g_yearPointsEarned' = yearPoints
            /\ g_totalPoints' = g_totalPoints
                                  + (IF nameMatch THEN namePoints ELSE 0)
                                  + (IF yearMatch THEN yearPoints ELSE 0)
            /\ g_attemptsRemaining' = remaining
            /\ g_awaitingNextRound' = over
            /\ g_roundHistory' =
                 IF over
                 THEN Append(g_roundHistory,
                        [round |-> g_currentRound + 1,
                         namePointsEarned |-> namePoints,
                         yearPointsEarned |-> yearPoints,
                         totalPointsEarned |-> namePoints + yearPoints,
                         attemptsUsed |-> IF bothCorrect THEN attemptsUsed ELSE 3,
                         nameCorrect |-> nameNow,
                         yearCorrect |-> yearNow])
                 ELSE g_roundHistory
            /\ g_currentRound' = IF over THEN g_currentRound + 1
                                 ELSE g_currentRound
            /\ guessResult' =
                 [action |-> "guessed",
                  nameMatch |-> nameMatch,
                  yearMatch |-> yearMatch,
                  namePointsThisAttempt |-> IF nameMatch THEN namePoints ELSE 0,
                  yearPointsThisAttempt |-> IF yearMatch THEN yearPoints ELSE 0,
                  isRoundOver |-> over,
                  isGameOver |-> (g_currentRound' >= 5),
                  blurAmount |-> 0]

\* Guess.reset
GuessReset ==
    /\ g_currentRound' = 0
    /\ g_totalPoints' = 0
    /\ g_usedCardIds' = <<>>
    /\ g_currentCard' = NoCard
    /\ g_attemptsRemaining' = 3
    /\ g_nameCorrect' = FALSE
    /\ g_yearCorrect' = FALSE
    /\ g_namePointsEarned' = 0
    /\ g_yearPointsEarned' = 0
    /\ g_roundHistory' = <<>>
    /\ g_isPlaying' = FALSE
    /\ g_awaitingNextRound' = FALSE
    /\ guessResult' = NoGuessResult
    /\ g_abandoned' = 0
    /\ UNCHANGED <<cardsVars, notGuessVars>>

\* the names a player types, as typed
GuessNames ==
    { <<" ","W","a","g","n","e","r"," ">>,
      <<"t","y"," ","c","o","b","b">>, <<"J","o","e">>,
      <<"e","d"," ","p","l","a","n","k">>, <<"s","m","i","t","h">> }

\* the years a player types
GuessYears == { <<"1","9","0","9">>, <<"1","9","1","1">>, <<"1","9","x">> }

-----------------------------------------------------------------------------
(* HighScores *)

\* what localStorage holds under storageKey: nothing, a string JSON.parse
\* rejects, or an object, given by its top-level number entries (flat), its
\* top-level keys that hold an object (modes) and the number entries of
\* those objects (entries)
Missing == [state |-> "missing", flat |-> {}, modes |-> {}, entries |-> {}]
Garbage == [state |-> "garbage", flat |-> {}, modes |-> {}, entries |-> {}]
EmptyScores ==
    [state |-> "object", flat |-> {}, modes |-> {"matching", "valuation"},
     entries |-> {}]

NoScoreCall == [op |-> "none", gameType |-> "null", difficulty |-> "null",
                score |-> 0, returned |-> FALSE]

GameTypes == {"matching", "valuation", "guess"}

\* the keys scores are saved under, per game type
Difficulties(gameType) ==
    IF gameType = "matching" THEN {"10", "20"}
    ELSE IF gameType = "valuation" THEN {"3-card"}
         ELSE {"all"}

\* !isNaN(key), for the keys a ledger holds
IsNumericKey(key) == key \in {"10", "20", "30"}

\* scores[gameType] is truthy: an object, or a number other than 0
HasMode(scores, gameType) ==
    \/ gameType \in scores.modes
    \/ \E f \in scores.flat : f[1] = gameType /\ f[2] # 0

migrateScores_DropLegacy(scores) ==
    IF HasMode(scores, "matching") \/ HasMode(scores, "valuation")
    THEN scores
    ELSE EmptyScores

\* HighScores.migrateScores(scores)
migrateScores(scores) ==
    IF HasMode(scores, "matching") \/ HasMode(scores, "valuation")
    THEN scores
    ELSE [state |-> "object", flat |-> {},
          modes |-> {"matching", "valuation"},
          entries |-> {<<"matching", e[1], e[2]>> :
                          e \in {f \in scores.flat : IsNumericKey(f[1])}}]

\* HighScores.getAll: the catch gives the empty ledger
getAll(stored) ==
    IF stored.state = "garbage" THEN EmptyScores
    ELSE IF stored.state = "missing"
         THEN migrateScores([state |-> "object", flat |-> {}, modes |-> {},
                             entries |-> {}])
         ELSE migrateScores(stored)

\* scores[gameType][difficulty] is defined, and its value
HasScore(scores, gameType, difficulty) ==
    \E e \in scores.entries : e[1] = gameType /\ e[2] = difficulty
ScoreAt(scores, gameType, difficulty) ==
    (CHOOSE e \in scores.entries : e[1] = gameType /\ e[2] = difficulty)[3]

\* !currentBest: undefined and 0 are both falsy
NoCurrentBest(scores, gameType, difficulty) ==
    \/ ~HasScore(scores, gameType, difficulty)
    \/ ScoreAt(scores, gameType, difficulty) = 0

\* if (!scores[gameType]) scores[gameType] = {}
EnsureMode(scores, gameType) ==
    IF HasMode(scores, gameType) THEN scores
    ELSE [scores EXCEPT !.flat = {f \in @ : f[1] # gameType},
                        !.modes = @ \cup {gameType}]

SetScore_ReplaceMode(scores, gameType, difficulty, score) ==
    IF gameType \in scores.modes
    THEN [scores EXCEPT
            !.entries = {e \in @ : e[1] # gameType}
                           \cup {<<gameType, difficulty, score>>}]
    ELSE scores

\* scores[gameType][difficulty] = score: an assignment to a property of a
\* number does nothing
SetScore(scores, gameType, difficulty, score) ==
    IF gameType \in scores.modes
    THEN [scores EXCEPT
            !.entries = {e \in @ : ~(e[1] = gameType /\ e[2] = difficulty)}
                           \cup {<<gameType, difficulty, score>>}]
    ELSE scores

\* the isNewRecord of HighScores.save for a named game type
isNewRecord(scores, gameType, difficulty, score) ==
    IF gameType = "matching"
    THEN NoCurrentBest(scores, gameType, difficulty)
           \/ score < ScoreAt(scores, gameType, difficulty)
    ELSE NoCurrentBest(scores, gameType, difficulty)
           \/ score > ScoreAt(scores, gameType, difficulty)

\* the end of both branches of save: localStorage.setItem stores the ledger
\* and save returns true, or it throws and save returns false
WriteScores(scores, call) ==
    \/ /\ storage' = scores
       /\ scoreCall' = [call EXCEPT !.returned = TRUE]
    \/ /\ UNCHANGED storage
       /\ scoreCall' = [call EXCEPT !.returned = FALSE]

\* HighScores.save(gameType, difficulty, score) with a game type's name
Save(gameType, difficulty, score) ==
    LET scores == EnsureMode(getAll(storage), gameType)
        call   == [op |-> "save", gameType |-> gameType,
                   difficulty |-> difficulty, score |-> score,
                   returned |-> FALSE]
    IN
    /\ IF isNewRecord(scores, gameType, difficulty, score)
       THEN WriteScores(SetScore(scores, gameType, difficulty, score), call)
       ELSE UNCHANGED storage /\ scoreCall' = call
    /\ UNCHANGED <<cardsVars, gameVars, valVars, guessVars, fuzzyCall, adjCall,
                   appVars>>

\* HighScores.save(cardCount, turns): the branch taken for a numeric first
\* argument
saveTurns(count, turnCount) ==
    LET scores == getAll(storage)
        call   == [op |-> "saveTurns", gameType |-> "matching",
                   difficulty |-> count, score |-> turnCount,
                   returned |-> FALSE]
    IN
    IF NoCurrentBest(scores, "matching", count)
         \/ turnCount < ScoreAt(scores, "matching", count)
    THEN WriteScores(SetScore(EnsureMode(scores, "matching"), "matching",
                              count, turnCount), call)
    ELSE UNCHANGED storage /\ scoreCall' = call

\* one such call, made on its own
SaveTurns(count, turnCount) ==
    /\ saveTurns(count, turnCount)
    /\ UNCHANGED <<cardsVars, gameVars, valVars, guessVars, fuzzyCall, adjCall,
                   appVars>>

\* scores[gameType]?.[difficulty] || null: the call as the caller sees it,
\* null for a missing entry and for a stored 0
Lookup(scores, gameType, difficulty) ==
    IF HasScore(scores, gameType, difficulty)
         /\ ScoreAt(scores, gameType, difficulty) # 0
    THEN [op |-> "get", gameType |-> gameType, difficulty |-> difficulty,
          isNull |-> FALSE, value |-> ScoreAt(scores, gameType, difficulty)]
    ELSE [op |-> "get", gameType |-> gameType, difficulty |-> difficulty,
          isNull |-> TRUE, value |-> 0]

\* HighScores.get(gameType, difficulty) with a game type's name
Get(gameType, difficulty) ==
    /\ scoreCall' = Lookup(getAll(storage), gameType, difficulty)
    /\ UNCHANGED <<storage, cardsVars, gameVars, valVars, guessVars, fuzzyCall,
                   adjCall, appVars>>

\* HighScores.get(cardCount): the branch taken for a numeric first argument
GetCount(count) ==
    /\ scoreCall' = [Lookup(getAll(storage), "matching", count)
                       EXCEPT !.op = "getCount"]
    /\ UNCHANGED <<storage, cardsVars, gameVars, valVars, guessVars, fuzzyCall,
                   adjCall, appVars>>

\* the scores a call can carry: turn counts from 1, points from 0
Scores(gameType) ==
    IF gameType = "matching" THEN 1..MaxScore ELSE 0..MaxScore

\* what the storage of a browser can hold when the page loads: nothing, a
\* string that does not parse, the legacy flat ledger, and the documented
\* ledger with a number under 'guess'
StoredAtStart ==
    { Missing, Garbage,
      [state |-> "object", flat |-> {<<"10", 2>>}, modes |-> {},
       entries |-> {}],
      [state |-> "object", flat |-> {<<"guess", 2>>},
       modes |-> {"matching", "valuation"}, entries |-> {}] }

-----
(* Specifications *)

InitCards ==
    /\ allCards = <<>>
    /\ isLoaded = FALSE
    /\ loadReturned = <<>>
    /\ refetched = FALSE
    /\ adjCall = NoAdjCall

InitGame ==
    /\ cards = <<>>
    /\ flippedCards = <<>>
    /\ matchedPairs = <<>>
    /\ turns = 0
    /\ isLocked = FALSE
    /\ cardCount = 0
    /\ isPlaying = FALSE
    /\ gameCall = "none"
    /\ gameResult = NoGameResult
    /\ pairResults = 0
    /\ won = FALSE
    /\ sessions = 0
    /\ ownUnlocks = 0
    /\ staleUnlocks = 0

InitValuation ==
    /\ v_mode = "null"
    /\ v_currentRound = 0
    /\ v_correctCount = 0
    /\ v_usedCardIds = {}
    /\ v_roundCards = <<>>
    /\ v_selectedCard = "null"
    /\ v_placements = <<"null", "null", "null">>
    /\ v_roundHistory = <<>>
    /\ v_isPlaying = FALSE
    /\ v_awaitingNextRound = FALSE
    /\ valResult = NoValResult

InitGuess ==
    /\ g_currentRound = 0
    /\ g_totalPoints = 0
    /\ g_usedCardIds = <<>>
    /\ g_currentCard = NoCard
    /\ g_attemptsRemaining = 3
    /\ g_nameCorrect = FALSE
    /\ g_yearCorrect = FALSE
    /\ g_namePointsEarned = 0
    /\ g_yearPointsEarned = 0
    /\ g_roundHistory = <<>>
    /\ g_isPlaying = FALSE
    /\ g_awaitingNextRound = FALSE
    /\ guessResult = NoGuessResult
    /\ g_abandoned = 0
    /\ fuzzyCall = NoFuzzyCall

\* a browser that never stored a score
InitScores ==
    /\ storage = Missing
    /\ scoreCall = NoScoreCall

-----------------------------------------------------------------------------
(* App: the Matching screen *)

\* currentCardCount as the App declares it
DefaultCardCount == 20

\* the ledger key a card count becomes when save uses it as a property name;
\* the boards of 10, 20 and 30 pairs are played here with 1, 2 and 3
DifficultyKey(n) == IF n = 1 THEN "10" ELSE IF n = 2 THEN "20" ELSE "30"

\* App.startGame(cardCount)
StartGame(n) ==
    /\ currentCardCount' = n
    /\ GameInit(n)
    /\ UNCHANGED victoryTimers

\* the restart and the play-again button
Restart ==
    /\ sessions > 0
    /\ currentCardCount \in 1..MaxCardCount
    /\ StartGame(currentCardCount)

\* the back button: Game.reset, then the menu
Back == GameReset

\* App.handleCardClick(tileId): a match that carries isVictory starts the
\* 800 ms timer of handleVictory. The timer holds no data; session, turns
\* and cardCount note the game that started it.
HandleCardClick(tileId) ==
    /\ FlipCard(tileId)
    /\ UNCHANGED currentCardCount
    /\ victoryTimers' =
          IF gameResult'.action = "match" /\ gameResult'.isVictory
          THEN victoryTimers \cup {[session |-> sessions, turns |-> turns',
                                    cardCount |-> cardCount]}
          ELSE victoryTimers

\* App.handleVictory, when a victory timer fires: Game.getTurns() and
\* this.currentCardCount are read then
HandleVictory ==
    /\ \E timer \in victoryTimers : victoryTimers' = victoryTimers \ {timer}
    /\ saveTurns(DifficultyKey(currentCardCount), turns)
    /\ UNCHANGED <<cardsVars, gameVars, valVars, guessVars, fuzzyCall, adjCall,
                   currentCardCount>>

\* the App object as it is declared
InitApp ==
    /\ currentCardCount = DefaultCardCount
    /\ victoryTimers = {}

Init ==
    /\ InitCards /\ InitGame /\ InitValuation /\ InitGuess /\ InitScores
    /\ InitApp

NextGame ==
    \/ \E n \in 1..MaxCardCount : GameInit(n) /\ UNCHANGED appVars
    \/ GameReset
    \/ \E t \in TileIds : FlipCard(t) /\ UNCHANGED appVars
    \/ Unlock
    \/ StaleUnlock

SpecGame == Init /\ [][NextGame]_vars

\* the Matching screen: the buttons, the board and the timers
NextApp ==
    \/ Restart
    \/ \E n \in 1..MaxCardCount : StartGame(n)
    \/ Back
    \/ \E t \in TileIds : HandleCardClick(t)
    \/ Unlock
    \/ StaleUnlock
    \/ HandleVictory

SpecApp == Init /\ [][NextApp]_vars

NextValuation ==
    \/ \E mode \in Modes : ValInit(mode)
    \/ SetupRound
    \/ \E cardId \in Range(Ids(v_roundCards)) : SelectCard(cardId)
    \/ \E position \in 1..3 : PlaceCard(position)
    \/ \E answer \in Answers(v_mode) : SubmitAnswer(answer)

SpecValuation == Init /\ [][NextValuation]_vars

\* the inputs fuzzyMatch is called with: trimmed, lowercased, the empty
\* input and one to three words of a small vocabulary
Words == { <<"h","o","n","u","s">>, <<"w","a","g","n","e","r">>, <<"h">>, <<"j","o","e">>, <<"c","o","b","b">>, <<"s","m","i","t","h">>, <<>> }

FuzzyInputs ==
    Words
    \cup {a \o <<" ">> \o b : a, b \in Words \ {<<>>}}
    \cup { <<"s","h","o","e","l","e","s","s"," ","j","o","e"," ","j","a","c","k","s","o","n">>,
           <<"t","y"," ","c","o","b","b">>,
           <<"s","h","o","e","l","e","s","s"," ","j","a","c","k","s","o","n"," ","j","o","e">>,
           <<"h","o","n","u","s"," "," ","w","a","g","n","e","r">> }

\* one Guess.fuzzyMatch call
FuzzyMatch(input, card) ==
    /\ fuzzyCall' = [input |-> input, card |-> card.id,
                     result |-> fuzzyMatch(input, card)]
    /\ UNCHANGED <<cardsVars, gameVars, valVars, guessVars, scoreVars, adjCall,
                   appVars>>

NextGuess ==
    \/ GuessInit
    \/ GuessSetupRound
    \/ \E name \in GuessNames, yearText \in GuessYears :
          SubmitGuess(name, yearText)
    \/ GuessReset

SpecGuess == Init /\ [][NextGuess]_vars

\* the Guess session as the round flow drives it
NextGuessRounds ==
    \/ GuessInit
    \/ NextGuessRound
    \/ \E name \in GuessNames, yearText \in GuessYears :
          SubmitGuess(name, yearText)
    \/ GuessReset

SpecGuessRounds == Init /\ [][NextGuessRounds]_vars

NextFuzzy ==
    \E input \in FuzzyInputs, i \in 1..Len(Catalog) :
       FuzzyMatch(input, Catalog[i])

SpecFuzzy == Init /\ [][NextFuzzy]_vars

InitStored ==
    /\ InitCards /\ InitGame /\ InitValuation /\ InitGuess /\ InitApp
    /\ storage \in StoredAtStart
    /\ scoreCall = NoScoreCall

NextScores ==
    \/ \E gameType \in GameTypes :
         \E difficulty \in Difficulties(gameType), score \in Scores(gameType) :
            Save(gameType, difficulty, score)
    \/ \E count \in Difficulties("matching"), turnCount \in Scores("matching") :
          SaveTurns(count, turnCount)
    \/ \E gameType \in GameTypes :
         \E difficulty \in Difficulties(gameType) : Get(gameType, difficulty)
    \/ \E count \in Difficulties("matching") : GetCount(count)

SpecScores == InitStored /\ [][NextScores]_vars

\* getAdjacentValues on a loaded catalog, for each of its cards and for an id
\* no card has; the wide catalog is taken in two file orders, which decide
\* the order the stable sort leaves cards of equal value in
InitAdjacent ==
    /\ allCards \in {Catalog, WideCatalog, Reverse(WideCatalog)}
    /\ isLoaded = TRUE
    /\ loadReturned = allCards
    /\ refetched = FALSE
    /\ adjCall = NoAdjCall
    /\ InitGame /\ InitValuation /\ InitGuess /\ InitScores /\ InitApp

NextAdjacent ==
    \E cardId \in Range(Ids(allCards)) \cup {"none"} : GetValueOptions(cardId)

SpecAdjacent == InitAdjacent /\ [][NextAdjacent]_vars

\* one '3-card' round being arranged: selectCard and placeCard calls
NextPlacement ==
    \/ ValInit("3-card")
    \/ \E cardId \in Range(Ids(v_roundCards)) : SelectCard(cardId)
    \/ \E position \in 1..3 : PlaceCard(position)

SpecPlacement == Init /\ [][NextPlacement]_vars

\* the card draws of the two round-based engines: their inits and setupRounds
NextRounds ==
    \/ \E mode \in Modes : ValInit(mode)
    \/ SetupRound
    \/ GuessInit
    \/ GuessSetupRound

SpecRounds == Init /\ [][NextRounds]_vars

\* the page's load calls: App.init's and the one each engine's init awaits
NextCards ==
    \/ Load
    \/ \E n \in 1..MaxCardCount : GameInit(n) /\ UNCHANGED appVars
    \/ \E mode \in Modes : ValInit(mode)
    \/ GuessInit

SpecCards == Init /\ [][NextCards]_vars

\* the ledger an earlier, Matching-only version of the page has left
LegacyStored ==
    [state |-> "object", flat |-> {<<"10", 2>>, <<"20", 3>>}, modes |-> {},
     entries |-> {}]

InitLegacy ==
    /\ InitCards /\ InitGame /\ InitValuation /\ InitGuess /\ InitApp
    /\ storage = LegacyStored
    /\ scoreCall = NoScoreCall

SpecLegacyScores == InitLegacy /\ [][NextScores]_vars

\* the ledger of a browser that has never stored a score
SpecFreshScores == Init /\ [][NextScores]_vars

\* the Matching session under the scheduling the browser gives it: a timer
\* that was set fires, and a player who keeps playing flips a tile when the
\* buffer is empty and sooner or later completes a pair that matches
FirstFlip ==
    \E t \in TileIds :
       FlipCard(t) /\ gameResult'.action = "flipped" /\ UNCHANGED appVars
MatchFlip ==
    \E t \in TileIds :
       FlipCard(t) /\ gameResult'.action = "match" /\ UNCHANGED appVars

LiveGame ==
    /\ Init /\ [][NextGame]_vars
    /\ WF_vars(Unlock) /\ WF_vars(StaleUnlock)
    /\ WF_vars(FirstFlip) /\ SF_vars(MatchFlip)

-----------------------------------------------------------------------------
(* Matching: claims *)

InDeck(t) == \E i \in 1..Len(cards) : cards[i].tileId = t
CardOf(t) == (CHOOSE c \in Range(cards) : c.tileId = t).id
InBuffer(t) == \E i \in 1..Len(flippedCards) : flippedCards[i].tileId = t
Matched(t) == \E i \in 1..Len(matchedPairs) : matchedPairs[i] = CardOf(t)
Flippable(t) == InDeck(t) /\ ~InBuffer(t) /\ ~Matched(t)

\* C1: a flipCard that completes a pair of tiles with different card ids
\* returns 'mismatch' and locks the session; while it is locked every
\* flipCard returns 'ignored', and the lock is released only by an unlock()
\* call (or by the init/reset that ends the session); after unlock() the
\* flip buffer is empty, isLocked is false, and in a playing session the flip
\* of any unmatched tile is accepted.
C1_MismatchLocksUntilUnlock ==
    [][ /\ (gameCall' = "flipCard" /\ ~isLocked /\ isPlaying
              /\ Len(flippedCards) = 1)
             => \A t \in TileIds :
                  ( /\ Flippable(t) /\ CardOf(t) # flippedCards[1].id
                    /\ FlipCard(t) )
                  => ( /\ gameResult'.action = "mismatch"
                       /\ isLocked'
                       /\ ownUnlocks' = ownUnlocks + 1 )
        /\ (isLocked /\ gameCall' = "flipCard")
             => (gameResult'.action = "ignored" /\ isLocked')
        /\ (isLocked /\ ~isLocked')
             => gameCall' \in {"unlock", "staleUnlock", "init", "reset"}
        /\ gameCall' \in {"unlock", "staleUnlock"}
             => (flippedCards' = <<>> /\ ~isLocked')
        /\ (gameCall' = "flipCard" /\ gameCall \in {"unlock", "staleUnlock"}
              /\ isPlaying)
             => \A t \in TileIds :
                  (Flippable(t) /\ FlipCard(t))
                     => gameResult'.action = "flipped"
      ]_vars

\* a first session in which a pair mismatched, its unlock ran, and the next
\* flip was accepted
C1_Witness ==
    /\ sessions = 1 /\ isPlaying
    /\ pairResults = 1 /\ matchedPairs = <<>>
    /\ ownUnlocks = 0 /\ ~isLocked
    /\ gameCall = "flipCard" /\ gameResult.action = "flipped"

\* C2: turns equals the number of flipCard calls of the session that
\* returned 'match' or 'mismatch'; a first flip, an ignored flip and
\* unlock() leave it unchanged.
C2_TurnsCountCompletedPairs == turns = pairResults

\* a session that has seen a mismatch, its unlock, a match and a first flip
C2_Witness ==
    /\ turns = 2 /\ Len(matchedPairs) = 1 /\ ownUnlocks = 0
    /\ gameResult.action = "flipped" /\ Len(flippedCards) = 1

\* C3: flipCard returns 'ignored' and changes nothing of the session when
\* it is locked, not playing, the tile is not in the deck, the tile is in the
\* flip buffer, or the tile's card is matched.
C3_RejectedFlipIsIgnored ==
    [][ gameCall' = "flipCard"
          => \A t \in TileIds :
               ( /\ \/ isLocked
                    \/ ~isPlaying
                    \/ ~InDeck(t)
                    \/ InBuffer(t)
                    \/ Matched(t)
                 /\ FlipCard(t) )
               => (gameResult'.action = "ignored" /\ UNCHANGED gameState)
      ]_vars

\* an ignored flip in a playing, unlocked session whose buffer holds a tile
C3_Witness ==
    /\ gameCall = "flipCard" /\ gameResult.action = "ignored"
    /\ isPlaying /\ ~isLocked /\ Len(flippedCards) = 1

\* C4: a 'match' result comes with the matched card id appended to
\* matchedPairs and an empty flip buffer, and its isVictory flag is true
\* exactly when the number of matched cards equals cardCount.
C4_MatchResult ==
    [][ (gameCall' = "flipCard" /\ gameResult'.action = "match")
          => ( /\ Len(flippedCards) = 1
               /\ matchedPairs' = Append(matchedPairs, flippedCards[1].id)
               /\ flippedCards' = <<>>
               /\ gameResult'.isVictory
                    <=> (Cardinality(Range(matchedPairs')) = cardCount) )
      ]_vars

\* a match that leaves a pair unmatched: its result is not a victory
C4_Witness ==
    /\ gameResult.action = "match" /\ ~gameResult.isVictory
    /\ cardCount = 2 /\ Len(cards) = 4 /\ Len(matchedPairs) = 1

\* C5: once a match result carried isVictory, every flipCard returns
\* 'ignored' and changes neither turns nor matchedPairs, until init or reset.
C5_VictoryIsTerminal ==
    [][ (won /\ gameCall' = "flipCard")
          => ( /\ gameResult'.action = "ignored"
               /\ turns' = turns
               /\ matchedPairs' = matchedPairs )
      ]_vars

\* a flip that was ignored after the victory
C5_Witness ==
    /\ won /\ gameCall = "flipCard" /\ gameResult.action = "ignored"
    /\ Len(matchedPairs) = cardCount

\* the deck init dealt holds both tiles of cardCount cards
FullDeck == isPlaying /\ Len(cards) = 2 * cardCount

\* C6: matchedPairs holds no card id twice and at most cardCount ids, and
\* from every state of a session dealt cardCount cards the victory (cardCount
\* matched pairs) is reached, each mismatch's unlock being invoked, unless
\* init or reset ends the session first.
C6_AllPairsReachable ==
    /\ [](/\ Cardinality(Range(matchedPairs)) = Len(matchedPairs)
          /\ Len(matchedPairs) <= cardCount)
    /\ FullDeck
         ~> \/ won /\ Len(matchedPairs) = cardCount
            \/ gameCall \in {"init", "reset"}

\* a victory of a session of two cards that also saw a mismatch
C6_Witness ==
    /\ won /\ cardCount = 2 /\ Len(matchedPairs) = 2 /\ turns > 2

-----------------------------------------------------------------------------
(* Valuation: claims *)

\* C7: after every setupRound the round cards have pairwise distinct
\* numeric values.
C7_RoundValuesDistinct ==
    \A i, j \in 1..Len(v_roundCards) :
        i # j => parseValue(v_roundCards[i].estimatedValue)
                   # parseValue(v_roundCards[j].estimatedValue)

\* a '3-card' round drawn from a pool that held both cards worth 1000: one
\* of them was passed over
C7_Witness ==
    /\ v_mode = "3-card" /\ Len(v_roundCards) = 3
    /\ valResult.action = "round"
    /\ "c1" \in v_usedCardIds /\ "c2" \notin v_usedCardIds

\* ranking is the sequence of the ids of roundCards in strictly descending
\* numeric value
IsDescendingRanking(ranking, roundCards) ==
    /\ Len(ranking) = Len(roundCards)
    /\ \A i \in 1..Len(ranking) :
          \E k \in 1..Len(roundCards) : roundCards[k].id = ranking[i]
    /\ \A i, j \in 1..Len(ranking) :
          i < j =>
            \A a, b \in 1..Len(roundCards) :
               (roundCards[a].id = ranking[i] /\ roundCards[b].id = ranking[j])
                  => parseValue(roundCards[a].estimatedValue)
                       > parseValue(roundCards[b].estimatedValue)

\* C8: in '3-card' mode an accepted submitAnswer reports isCorrect exactly
\* when the placements are the round's card ids in descending value order.
C8_RankingCorrectIffDescending ==
    (valResult.action = "answered" /\ v_mode = "3-card")
       => (valResult.isCorrect <=> IsDescendingRanking(v_placements, v_roundCards))

\* a correct ranking of three cards that were not dealt in descending order
C8_Witness ==
    /\ valResult.action = "answered" /\ v_mode = "3-card"
    /\ valResult.isCorrect /\ Len(v_roundCards) = 3
    /\ v_placements # Ids(v_roundCards)

\* C9: in '2-card' mode an accepted submitAnswer(id) reports isCorrect
\* exactly when id is the round card of strictly higher numeric value.
C9_PickCorrectIffHigher ==
    (valResult.action = "answered" /\ v_mode = "2-card")
       => ( valResult.isCorrect
              <=> \E i \in 1..2 :
                    /\ v_roundCards[i].id = valResult.answer
                    /\ parseValue(v_roundCards[i].estimatedValue)
                         > parseValue(v_roundCards[3 - i].estimatedValue) )

\* a correct pick of the second round card
C9_Witness ==
    /\ valResult.action = "answered" /\ v_mode = "2-card"
    /\ valResult.isCorrect
    /\ Len(v_roundCards) = 2 /\ valResult.answer = v_roundCards[2].id

\* C10: while awaitingNextRound every selectCard, placeCard and submitAnswer
\* returns 'ignored', and so does placeCard with no pending selection; the
\* ignored call leaves the Valuation state unchanged.
C10_OutOfWindowCallsIgnored ==
    [][ /\ (v_awaitingNextRound /\ valResult'.action # "round")
             => (valResult'.action = "ignored" /\ UNCHANGED valState)
        /\ (v_selectedCard = "null" /\ ~v_awaitingNextRound)
             => \A position \in 1..3 :
                  PlaceCard(position)
                     => (valResult'.action = "ignored" /\ UNCHANGED valState)
        /\ valResult'.action = "ignored" => UNCHANGED valState
      ]_vars

\* a call ignored during the reveal of a round whose slots were all filled
C10_Witness ==
    /\ v_awaitingNextRound /\ valResult.action = "ignored"
    /\ v_mode = "3-card" /\ v_currentRound >= 1
    /\ \A i \in 1..3 : v_placements[i] # "null"

\* C11: an accepted submitAnswer reports isGameOver = FALSE on each of the
\* first four accepted submissions since init and isGameOver = TRUE on the
\* fifth, the one that makes currentRound 5; the accepted submissions since
\* init are counted by roundHistory.
C11_GameOverOnFifthSubmission ==
    valResult.action = "answered"
       => /\ v_currentRound = Len(v_roundHistory)
          /\ v_currentRound \in 1..4 => ~valResult.isGameOver
          /\ v_currentRound = 5 => valResult.isGameOver

\* the fifth accepted submission, just returned
C11_Witness ==
    /\ valResult.action = "answered" /\ v_awaitingNextRound
    /\ Len(v_roundHistory) = 5 /\ valResult.isGameOver

-----------------------------------------------------------------------------
(* Guess: claims *)

\* a step is a submitGuess call that was accepted / that returned
GuessAccepted == guessResult'.action = "guessed"
GuessReturned == guessResult'.action \in {"guessed", "ignored"}

\* the points the claim gives the submission numbered a of a round
AwardFor(a) == IF a = 1 THEN 3 ELSE IF a = 2 THEN 2 ELSE 1

\* C12: a component that becomes correct on the submission numbered
\* a = 4 - attemptsRemaining (before the decrement) gets 3, 2 or 1 points for
\* a = 1, 2, 3, added once to totalPoints and set as the component's round
\* tally; a component already correct gets 0 on every later submission, and
\* its tally stays.
C12_PointsByAttempt ==
    [][ GuessAccepted =>
          LET a == 4 - g_attemptsRemaining IN
          /\ a \in 1..3
          /\ (~g_nameCorrect /\ g_nameCorrect')
                => /\ guessResult'.namePointsThisAttempt = AwardFor(a)
                   /\ g_namePointsEarned' = AwardFor(a)
          /\ (~g_yearCorrect /\ g_yearCorrect')
                => /\ guessResult'.yearPointsThisAttempt = AwardFor(a)
                   /\ g_yearPointsEarned' = AwardFor(a)
          /\ (g_nameCorrect \/ ~g_nameCorrect')
                => /\ guessResult'.namePointsThisAttempt = 0
                   /\ g_namePointsEarned' = g_namePointsEarned
          /\ (g_yearCorrect \/ ~g_yearCorrect')
                => /\ guessResult'.yearPointsThisAttempt = 0
                   /\ g_yearPointsEarned' = g_yearPointsEarned
          /\ g_totalPoints' = g_totalPoints
                                + guessResult'.namePointsThisAttempt
                                + guessResult'.yearPointsThisAttempt
      ]_vars

\* a first round in which the name came on the first submission and the year
\* on the third
C12_Witness ==
    /\ guessResult.action = "guessed" /\ g_currentRound = 1
    /\ g_namePointsEarned = 3 /\ g_yearPointsEarned = 1
    /\ guessResult.namePointsThisAttempt = 0
    /\ guessResult.yearPointsThisAttempt = 1
    /\ g_totalPoints = 4

\* C13: when setupRound is called only after a result that ended a round and
\* not the game, the points of a round never exceed 6, in the round in play
\* and in every recorded round, and totalPoints never exceeds 30.
C13_PointCeilings ==
    /\ g_namePointsEarned + g_yearPointsEarned <= 6
    /\ \A k \in 1..Len(g_roundHistory) :
          g_roundHistory[k].totalPointsEarned <= 6
    /\ g_totalPoints <= 30

\* five rounds, each won on its first submission
C13_Witness ==
    /\ g_currentRound = 5 /\ g_totalPoints = 30 /\ guessResult.isGameOver

\* C14: within a round, once nameCorrect is true it stays true and once
\* yearCorrect is true it stays true, whatever is submitted afterwards.
C14_CorrectnessSticks ==
    [][ GuessReturned =>
          /\ g_nameCorrect => g_nameCorrect'
          /\ g_yearCorrect => g_yearCorrect'
      ]_vars

\* a round that ran out of attempts with the name correct since an earlier
\* submission and the year never correct
C14_Witness ==
    /\ guessResult.action = "guessed" /\ g_attemptsRemaining = 0
    /\ g_nameCorrect /\ ~guessResult.nameMatch /\ ~g_yearCorrect
    /\ g_namePointsEarned = 3

\* C15: an accepted submitGuess lowers attemptsRemaining by exactly 1,
\* matched or not; an ignored one leaves it; it stays within 0..3.
C15_AttemptsDecrement ==
    /\ [](g_attemptsRemaining \in 0..3)
    /\ [][ /\ GuessAccepted => g_attemptsRemaining' = g_attemptsRemaining - 1
           /\ guessResult'.action = "ignored"
                => g_attemptsRemaining' = g_attemptsRemaining
         ]_vars

\* a first submission that matched the name only, and used an attempt
C15_Witness ==
    /\ guessResult.action = "guessed" /\ guessResult.nameMatch
    /\ ~guessResult.yearMatch /\ g_attemptsRemaining = 2

\* C16: an accepted submitGuess returns isRoundOver exactly when, after it,
\* both components are correct or attemptsRemaining is 0; exactly then one
\* roundHistory entry is appended, currentRound advances by 1 and
\* awaitingNextRound becomes true; isGameOver is reported once currentRound
\* is 5, and not before.
C16_RoundOverIff ==
    [][ GuessAccepted =>
          LET over == \/ g_nameCorrect' /\ g_yearCorrect'
                      \/ g_attemptsRemaining' = 0
          IN
          /\ guessResult'.isRoundOver <=> over
          /\ over => /\ Len(g_roundHistory') = Len(g_roundHistory) + 1
                     /\ SubSeq(g_roundHistory', 1, Len(g_roundHistory))
                          = g_roundHistory
                     /\ g_currentRound' = g_currentRound + 1
                     /\ g_awaitingNextRound'
          /\ ~over => /\ g_roundHistory' = g_roundHistory
                      /\ g_currentRound' = g_currentRound
                      /\ ~g_awaitingNextRound'
          /\ g_currentRound' = 5 => guessResult'.isGameOver
          /\ g_currentRound' < 5 => ~guessResult'.isGameOver
      ]_vars

\* the fifth round ending on its last attempt with the year still wrong
C16_Witness ==
    /\ guessResult.action = "guessed" /\ guessResult.isRoundOver
    /\ guessResult.isGameOver /\ g_currentRound = 5
    /\ g_attemptsRemaining = 0 /\ ~g_yearCorrect
    /\ Len(g_roundHistory) = 5

\* C17: submitGuess while awaitingNextRound, or with no current card,
\* returns 'ignored' and leaves totalPoints, attemptsRemaining, nameCorrect,
\* yearCorrect, currentRound and roundHistory unchanged.
C17_IgnoredGuess ==
    [][ /\ (GuessReturned /\ (g_awaitingNextRound \/ g_currentCard = NoCard))
             => guessResult'.action = "ignored"
        /\ guessResult'.action = "ignored"
             => UNCHANGED <<g_totalPoints, g_attemptsRemaining, g_nameCorrect,
                            g_yearCorrect, g_currentRound, g_roundHistory>>
      ]_vars

\* a guess ignored between the end of a round and the next setupRound
C17_Witness ==
    /\ guessResult.action = "ignored" /\ g_awaitingNextRound
    /\ g_currentRound = 1 /\ g_totalPoints > 0

\* the blur the claim gives for an attemptsRemaining
BlurFor(a) == IF a = 3 THEN 20 ELSE IF a = 2 THEN 10 ELSE IF a = 1 THEN 5 ELSE 0

\* C18: getBlurAmount gives 20, 10, 5, 0 for attemptsRemaining 3, 2, 1, 0
\* and 0 for any other value; the blur setupRound reports is 20, and the blur
\* never increases over the submissions of a round.
C18_BlurByAttempts ==
    /\ [](/\ getBlurAmount(g_attemptsRemaining) = BlurFor(g_attemptsRemaining)
          /\ \A a \in -2..6 : getBlurAmount(a) = BlurFor(a)
          /\ guessResult.action = "round" => guessResult.blurAmount = 20)
    /\ [][ GuessReturned
             => getBlurAmount(g_attemptsRemaining')
                   <= getBlurAmount(g_attemptsRemaining)
         ]_vars

\* a round whose third submission took the blur to 0
C18_Witness ==
    /\ guessResult.action = "guessed" /\ g_attemptsRemaining = 0
    /\ getBlurAmount(g_attemptsRemaining) = 0

\* the words of a string and of a card's lowercased name
WordsOf(str) == split(str)
NameWordsOf(cardId) == split(toLowerCase(CardFace[cardId].playerName))

\* C19: for a trimmed, lowercased input, fuzzyMatch is true exactly when
\* (a) the input is the lowercased full name, or (b) the input has more than
\* one word and its last word is the name's last word, or (c) the input is
\* one word that is some word of the name.
C19_FuzzyMatchCases ==
    fuzzyCall.card # "null" =>
       LET input == fuzzyCall.input
           name  == NameWordsOf(fuzzyCall.card)
           words == WordsOf(input)
       IN fuzzyCall.result
            <=> \/ input = toLowerCase(CardFace[fuzzyCall.card].playerName)
                \/ /\ Len(words) > 1
                   /\ words[Len(words)] = name[Len(name)]
                \/ /\ Len(words) = 1
                   /\ \E k \in 1..Len(name) : name[k] = words[1]

\* 'joe', a middle word of 'Shoeless Joe Jackson', matched
C19_Witness ==
    /\ fuzzyCall.card = "c3" /\ fuzzyCall.result
    /\ fuzzyCall.input = <<"j","o","e">>

-----------------------------------------------------------------------------
(* HighScores: claims *)

\* C20: save(mode, key, score) with a game type's name overwrites the stored
\* best only when there is none or the score is strictly better (lower for
\* 'matching', higher otherwise) and returns true exactly then; a score equal
\* to or worse than the stored best, a stored best of 0 included, returns
\* false and leaves the storage as it is.
C20_SaveOnlyWhenStrictlyBetter ==
    [][ scoreCall'.op = "save" =>
          LET gameType   == scoreCall'.gameType
              difficulty == scoreCall'.difficulty
              score      == scoreCall'.score
              before     == getAll(storage)
              after      == getAll(storage')
              had        == HasScore(before, gameType, difficulty)
              better     == IF gameType = "matching"
                            THEN score < ScoreAt(before, gameType, difficulty)
                            ELSE score > ScoreAt(before, gameType, difficulty)
          IN
          /\ scoreCall'.returned
                => /\ ~had \/ better
                   /\ HasScore(after, gameType, difficulty)
                   /\ ScoreAt(after, gameType, difficulty) = score
          /\ (had /\ ~better)
                => (~scoreCall'.returned /\ storage' = storage)
          /\ ~scoreCall'.returned => storage' = storage
      ]_vars

\* C21: when save(mode, key, s) returns true, the get(mode, key) that follows
\* it returns s, for every score s of the mode's range (0 included for
\* 'valuation' and 'guess').
C21_GetReturnsSavedScore ==
    [][ ( /\ scoreCall.op = "save" /\ scoreCall.returned
          /\ scoreCall'.op = "get"
          /\ scoreCall'.gameType = scoreCall.gameType
          /\ scoreCall'.difficulty = scoreCall.difficulty )
        => (~scoreCall'.isNull /\ scoreCall'.value = scoreCall.score)
      ]_vars

\* the stored value gives no score mapping for the game type: it is missing,
\* does not parse, or holds a number where the game type's mapping should be
Unusable(stored, gameType) ==
    \/ stored.state # "object"
    \/ \E f \in stored.flat : f[1] = gameType

\* C22: on a stored value that is missing or not usable as a score mapping
\* get returns null and a save that returns true has recorded the score, as
\* on an empty ledger; a save whose write fails returns false and leaves the
\* persisted ledger unchanged.
C22_StorageFailuresContained ==
    [][ /\ scoreCall'.op = "get" /\ Unusable(storage, scoreCall'.gameType)
           => scoreCall'.isNull
        /\ scoreCall'.op = "save"
           => /\ ~scoreCall'.returned => storage' = storage
              /\ (Unusable(storage, scoreCall'.gameType)
                     /\ scoreCall'.returned)
                  => /\ HasScore(getAll(storage'), scoreCall'.gameType,
                                  scoreCall'.difficulty)
                     /\ ScoreAt(getAll(storage'), scoreCall'.gameType,
                                 scoreCall'.difficulty) = scoreCall'.score
      ]_vars

\* the stored value has the legacy flat shape {difficulty: score}, or the
\* nested shape mode -> key -> score
IsLegacy(stored) ==
    /\ stored.state = "object" /\ stored.modes = {} /\ stored.flat # {}
    /\ \A f \in stored.flat : IsNumericKey(f[1])
IsNested(stored) ==
    /\ stored.state = "object" /\ "matching" \in stored.modes
    /\ \A f \in stored.flat : ~IsNumericKey(f[1])

\* the Matching scores a stored value holds, in either shape
MatchingScores(stored) ==
    IF IsLegacy(stored) THEN stored.flat
    ELSE {<<e[2], e[3]>> : e \in {x \in stored.entries : x[1] = "matching"}}

\* the call that has just returned beat the Matching entry m
Beaten(call, m) ==
    /\ call.gameType = "matching" /\ call.difficulty = m[1]
    /\ call.returned /\ call.score < m[2]

\* on a legacy ledger get('matching', d) returns the legacy score
LegacyGet ==
    ( /\ IsLegacy(storage)
      /\ scoreCall'.op = "get" /\ scoreCall'.gameType = "matching" )
    => \A f \in storage.flat :
          f[1] = scoreCall'.difficulty
             => (~scoreCall'.isNull /\ scoreCall'.value = f[2])

\* C23 as stated: on a legacy flat ledger get('matching', d) returns the
\* legacy score, and after any subsequent save the persisted value is nested
\* and still holds every legacy Matching entry that was not beaten.
C23_AnySavePersistsNested ==
    [][ /\ LegacyGet
        /\ scoreCall'.op \in {"save", "saveTurns"}
           => /\ IsNested(storage')
              /\ \A m \in MatchingScores(storage) :
                    m \in MatchingScores(storage') \/ Beaten(scoreCall', m)
      ]_vars

\* C23, amended: on a legacy flat ledger get('matching', d) returns the
\* legacy score; after a save that returns true the persisted value is
\* nested and still holds every Matching entry that was not beaten; a save
\* that returns false leaves the persisted value as it was.
C23_WritingSavePersistsNested ==
    [][ /\ LegacyGet
        /\ scoreCall'.op \in {"save", "saveTurns"}
           => IF scoreCall'.returned
              THEN /\ IsNested(storage')
                   /\ \A m \in MatchingScores(storage) :
                         m \in MatchingScores(storage')
                            \/ Beaten(scoreCall', m)
              ELSE storage' = storage
      ]_vars

\* a save for another key has been written over the legacy ledger, and both
\* legacy scores are in the nested ledger
C23_Witness ==
    /\ scoreCall.op = "save" /\ scoreCall.returned
    /\ scoreCall.gameType = "valuation"
    /\ IsNested(storage)
    /\ LegacyStored.flat \subseteq MatchingScores(storage)

-----------------------------------------------------------------------------
(* Cards: claims *)

\* C24: with a catalog left empty by a failed load, no engine call throws:
\* init and setupRound yield an empty deck, an empty round and no active
\* card, and flipCard, submitAnswer and submitGuess return a result.
C24_EmptyCatalogNeverThrows ==
    allCards = <<>>
       => /\ guessResult.action # "threw"
          /\ valResult.action # "threw"
          /\ cards = <<>> /\ v_roundCards = <<>> /\ g_currentCard = NoCard

\* C25: once a load has succeeded every later load returns the cached list,
\* fetches nothing and leaves allCards as it is; a load that fails leaves
\* allCards empty and returns an empty list.
C25_LoadIsIdempotent ==
    /\ [](loadReturned = allCards /\ ~refetched)
    /\ [](~isLoaded => allCards = <<>>)
    /\ [][isLoaded => (isLoaded' /\ allCards' = allCards)]_vars

\* a second session has started on the list the first load cached
C25_Witness ==
    /\ isLoaded /\ loadReturned = allCards /\ allCards # <<>>
    /\ sessions >= 2

\* C26: the options getAdjacentValues returns hold no two display strings
\* with the same numeric value, also when the catalog holds display strings
\* that differ and parse to the same number.
C26_OptionsNumericallyDistinct ==
    \A i, j \in 1..Len(adjCall.options) :
       i # j => parseValue(adjCall.options[i]) # parseValue(adjCall.options[j])

\* the position of the card with this id in the catalog sorted by descending
\* value
SortedIndex(id) == IndexOf(Ids(sortByValue(allCards, TRUE)), id)

C28_DeckIsPairsOfTiles ==
    (isPlaying /\ cardCount <= Len(allCards)) =>
       LET ids == {cards[i].id : i \in 1..Len(cards)}
       IN /\ Len(cards) = 2 * cardCount
          /\ \A i, j \in 1..Len(cards) :
                i # j => cards[i].tileId # cards[j].tileId
          /\ Cardinality(ids) = cardCount
          /\ ids \subseteq Range(Ids(allCards))
          /\ \A id \in ids :
                {cards[i].tileId : i \in {k \in 1..Len(cards) : cards[k].id = id}}
                   = {<<id, "a">>, <<id, "b">>}

\* a shuffled deck of two pairs with a '-b' tile in front
C28_Witness ==
    /\ gameCall = "init" /\ cardCount = 2 /\ Len(cards) = 4
    /\ cards[1].tileId[2] = "b"

-----------------------------------------------------------------------------
(* Valuation and Guess rounds: claims *)

\* C29: every Valuation.setupRound on a catalog of at least k cards leaves
\* exactly k round cards, k = 3, 2, 1 for '3-card', '2-card', '1-card',
\* whatever ids are used already and also when unused cards tie in value.
C29_RoundHasModeSize ==
    (v_isPlaying /\ Len(allCards) >= RoundSize(v_mode))
       => Len(v_roundCards) = RoundSize(v_mode)

\* C30: while the unused pool is not exhausted and reset, every card a
\* Valuation or Guess setupRound draws is absent from usedCardIds before the
\* draw and present in it afterwards, and no used id is forgotten, so no
\* card is presented in two rounds of a session.
C30_DrawnCardsAreFresh ==
    [][ /\ (valResult'.action = "round" /\ SetupRound)
           => ( Len(Unused(allCards, v_usedCardIds)) >= RoundSize(v_mode)
                  => /\ v_usedCardIds \subseteq v_usedCardIds'
                     /\ \A id \in Range(Ids(v_roundCards')) :
                           id \notin v_usedCardIds /\ id \in v_usedCardIds' )
        /\ (guessResult'.action = "round" /\ GuessSetupRound)
           => ( Unused(allCards, Range(g_usedCardIds)) # <<>>
                  => /\ Range(g_usedCardIds) \subseteq Range(g_usedCardIds')
                     /\ g_currentCard'.id \notin Range(g_usedCardIds)
                     /\ g_currentCard'.id \in Range(g_usedCardIds') )
      ]_vars

\* both engines are in a second round drawn from a pool that was not reset
C30_Witness ==
    /\ v_mode = "1-card" /\ v_usedCardIds = {"c1", "c2"}
    /\ Len(v_roundCards) = 1 /\ v_roundCards[1].id = "c2"
    /\ Len(g_usedCardIds) = 2 /\ g_usedCardIds[1] # g_usedCardIds[2]
    /\ g_currentCard.id = g_usedCardIds[2]

-----------------------------------------------------------------------------
(* Valuation: placements and rounds, claims *)

\* C31: in '3-card' mode no card id is in two placement slots; an accepted
\* placeCard(position) puts the pending card in that slot, takes it out of
\* the slot it held, clears the pending selection and returns canSubmit
\* exactly when all three slots are filled.
C31_PlacementsHoldEachCardOnce ==
    /\ [](\A i, j \in 1..3 :
            (i # j /\ v_placements[i] # "null")
               => v_placements[i] # v_placements[j])
    /\ [][ valResult'.action = "placed"
            => /\ v_selectedCard # "null" /\ v_selectedCard' = "null"
               /\ \E position \in 1..3 :
                     /\ v_placements'[position] = v_selectedCard
                     /\ \A q \in 1..3 \ {position} :
                           v_placements'[q] =
                              IF v_placements[q] = v_selectedCard THEN "null"
                              ELSE v_placements[q]
               /\ valResult'.canSubmit
                     <=> \A q \in 1..3 : v_placements'[q] # "null"
          ]_vars

\* a placed card was moved to another slot, which leaves its old slot empty
\* between two filled ones
C31_Witness ==
    /\ valResult.action = "placed" /\ ~valResult.canSubmit
    /\ v_placements[1] # "null" /\ v_placements[2] = "null"
    /\ v_placements[3] # "null"

C36_ValuationStopsAtFiveRounds ==
    /\ v_currentRound \in 0..5
    /\ v_correctCount <= 5
    /\ Len(v_roundHistory) <= 5

\* C39: in every state of a Valuation session roundHistory has currentRound
\* entries whose round fields are 1, 2, ... in order, and correctCount is the
\* number of entries with isCorrect; the entry an accepted submitAnswer has
\* appended carries the isCorrect that the call returned.
C39_HistoryMatchesCounters ==
    /\ Len(v_roundHistory) = v_currentRound
    /\ \A i \in 1..Len(v_roundHistory) : v_roundHistory[i].round = i
    /\ v_correctCount
         = Cardinality({i \in 1..Len(v_roundHistory) :
                           v_roundHistory[i].isCorrect})
    /\ valResult.action = "answered"
         => /\ v_roundHistory # <<>>
            /\ v_roundHistory[Len(v_roundHistory)].isCorrect
                  = valResult.isCorrect

\* three rounds answered, the second one wrongly
C39_Witness ==
    /\ v_isPlaying /\ v_currentRound = 3 /\ v_correctCount = 2
    /\ Len(v_roundHistory) = 3
    /\ v_roundHistory[1].isCorrect /\ ~v_roundHistory[2].isCorrect
    /\ valResult.action = "answered" /\ valResult.isCorrect

-----------------------------------------------------------------------------
(* Game: flip buffer and timers, claims *)

\* C33: the flip buffer holds 0, 1 or 2 tiles with distinct tileIds, none of
\* a matched card; it holds 2 tiles exactly when isLocked, and these two
\* tiles have different card ids.
C33_FlipBufferShape ==
    /\ Len(flippedCards) \in 0..2
    /\ \A i, j \in 1..Len(flippedCards) :
          i # j => flippedCards[i].tileId # flippedCards[j].tileId
    /\ \A i \in 1..Len(flippedCards) :
          flippedCards[i].id \notin Range(matchedPairs)
    /\ isLocked <=> Len(flippedCards) = 2
    /\ isLocked => flippedCards[1].id # flippedCards[2].id

\* a mismatched pair waits for its flip-back in a second session
C33_Witness ==
    /\ isPlaying /\ isLocked /\ sessions = 2
    /\ Len(flippedCards) = 2 /\ gameResult.action = "mismatch"

\* C34: whenever an unlock closure runs, after any delay, it removes no tile
\* recorded as the first flip of a later turn, and a closure of an earlier
\* session (an init or reset came in between) leaves the running session's
\* buffer and lock as they are.
C34_UnlockTouchesOnlyItsOwnTurn ==
    [][ /\ gameCall' \in {"unlock", "staleUnlock"}
           => (Len(flippedCards) = 1 => flippedCards' = flippedCards)
        /\ gameCall' = "staleUnlock"
           => (flippedCards' = flippedCards /\ isLocked' = isLocked)
      ]_vars

-----------------------------------------------------------------------------
(* HighScores: frame of save, claims *)

\* the best the ledger holds for a pair, as getAll reads it: whether there
\* is one, and its value
StoredBest(stored, gameType, difficulty) ==
    IF HasScore(getAll(stored), gameType, difficulty)
    THEN <<TRUE, ScoreAt(getAll(stored), gameType, difficulty)>>
    ELSE <<FALSE, 0>>

\* C38: a HighScores.save for one (mode, key), whether or not it sets a new
\* record, leaves the stored best of every other (mode, key) as it was.
C38_SaveLeavesOtherPairsAlone ==
    [][ scoreCall'.op \in {"save", "saveTurns"}
          => \A gameType \in GameTypes :
               \A difficulty \in Difficulties(gameType) :
                  (gameType # scoreCall'.gameType
                     \/ difficulty # scoreCall'.difficulty)
                  => StoredBest(storage', gameType, difficulty)
                       = StoredBest(storage, gameType, difficulty)
      ]_vars

\* a save has set a record for matching '10' while matching '20' and
\* valuation '3-card' hold bests of their own
C38_Witness ==
    /\ scoreCall.op \in {"save", "saveTurns"}
    /\ scoreCall.gameType = "matching" /\ scoreCall.difficulty = "10"
    /\ scoreCall.returned
    /\ StoredBest(storage, "matching", "10") = <<TRUE, scoreCall.score>>
    /\ StoredBest(storage, "matching", "20")[1]
    /\ StoredBest(storage, "valuation", "3-card")[1]

-----------------------------------------------------------------------------
(* App: the victory timer, claims *)

\* C35: whenever App.handleVictory runs, however the 800 ms delay was
\* interleaved with back, restart and play again, the turn count it passes
\* to HighScores.save is the turn count of the session that won, filed under
\* that session's card count, and is at least that card count (never 0).
C35_VictorySavesTheWinningSessionsTurns ==
    [][ (victoryTimers' # victoryTimers /\ scoreCall'.op = "saveTurns")
          => \E timer \in victoryTimers \ victoryTimers' :
                /\ scoreCall'.score = timer.turns
                /\ scoreCall'.difficulty = DifficultyKey(timer.cardCount)
                /\ scoreCall'.score >= timer.cardCount
      ]_vars

-----------------------------------------------------------------------------
(* Guess: rounds and points, claims *)

\* C37: in every state the Guess calls reach, currentRound is within 0..5
\* and totalPoints within 0..30.
C37_GuessStopsAtFiveRounds ==
    /\ g_currentRound \in 0..5
    /\ g_totalPoints \in 0..30

\* the sum of totalPointsEarned over the entries of a round history
RECURSIVE HistoryPoints(_)
HistoryPoints(history) ==
    IF history = <<>> THEN 0
    ELSE Head(history).totalPointsEarned + HistoryPoints(Tail(history))

\* C40: in every state of a Guess session totalPoints is the sum of
\* totalPointsEarned over roundHistory plus, while a round is open, that
\* round's namePointsEarned + yearPointsEarned; roundHistory has currentRound
\* entries, and in each entry a component has points iff it is recorded as
\* correct.
C40_TotalIsSumOfRounds ==
    /\ g_totalPoints
         = HistoryPoints(g_roundHistory)
             + (IF RoundOpen THEN g_namePointsEarned + g_yearPointsEarned
                ELSE 0)
    /\ Len(g_roundHistory) = g_currentRound
    /\ \A k \in 1..Len(g_roundHistory) :
          /\ (g_roundHistory[k].namePointsEarned # 0)
                <=> g_roundHistory[k].nameCorrect
          /\ (g_roundHistory[k].yearPointsEarned # 0)
                <=> g_roundHistory[k].yearCorrect

=============================================================================
